---------------------------- MODULE Spec2Model ----------------------------
(***************************************************************************)
(* Client Records API: the CORS gate and the handlers of the two variants  *)
(* of server.js (the node-postgres one, src/server.js, and the supabase-js *)
(* one, src/unnamed/part_000) over one "clients" table.                    *)
(*                                                                         *)
(* Strings the code parses (the :id path parameter, the page query         *)
(* parameter, the text of the row count) are sequences of one-character strings, so  *)
(* that parseInt and the integer input of the database are computed.       *)
(* Column values are strings; "NULL" is SQL NULL / JSON null, "true" and   *)
(* "false" are the booleans; timestamps and ids are integers.              *)
(***************************************************************************)
EXTENDS Integers, Sequences, FiniteSets, TLC

\* ------------------------------------------------------------------ bounds
\* the serial sequence of clients.id hands out 1..MaxId
MaxId == 2
\* the database clock stops at MaxTime (it starts at 1)
MaxTime == 3

\* ------------------------------------------------------- program constants
limit == 10

NULL == "NULL"

MutableFields ==
  {"full_name", "email", "phone", "location", "service_type",
   "serial_number", "price", "supporter", "has_bonus"}

Columns == {"id"} \cup MutableFields \cup {"created_at", "updated_at"}

NoOrigin == "<none>"
EvilOrigin == "https://evil.example"

\* the allow-list of each variant (FRONTEND_URL at its default)
allowedOrigins(v) ==
  IF v = "pg"
  THEN {"http://localhost:3000", "http://localhost:5173",
        "https://smart-broadband-3.vercel.app"}
  ELSE {"http://localhost:3000", "http://localhost:5173"}

\* the origin callback handed to cors(): TRUE is callback(null, true),
\* FALSE is callback(new Error("Not allowed by CORS"))
CorsAllowsAll(v, origin) == TRUE

CorsAllows(v, origin) ==
  IF origin = NoOrigin THEN TRUE
  ELSE origin \in allowedOrigins(v)

\* ------------------------------------------------------- text <-> integer
Digits == <<"0", "1", "2", "3", "4", "5", "6", "7", "8", "9">>

IsDigit(c) == \E i \in 1..10 : Digits[i] = c

DigitVal(c) == (CHOOSE i \in 1..10 : Digits[i] = c) - 1

\* String(n) of a non-negative integer
RECURSIVE IntText(_)
IntText(n) ==
  IF n < 10 THEN <<Digits[n + 1]>>
  ELSE IntText(n \div 10) \o <<Digits[(n % 10) + 1]>>

\* the value of the longest prefix of digits of s, continuing from acc
RECURSIVE DigitPrefixVal(_, _)
DigitPrefixVal(s, acc) ==
  IF s = <<>> \/ ~IsDigit(Head(s)) THEN acc
  ELSE DigitPrefixVal(Tail(s), 10 * acc + DigitVal(Head(s)))

\* JavaScript parseInt(s): optional sign, then the longest prefix of digits;
\* NaN when there is no digit there
parseInt(s) ==
  LET neg  == s # <<>> /\ Head(s) = "-"
      rest == IF s # <<>> /\ Head(s) \in {"-", "+"} THEN Tail(s) ELSE s
  IN IF rest = <<>> \/ ~IsDigit(Head(rest))
     THEN [isNaN |-> TRUE, val |-> 0]
     ELSE [isNaN |-> FALSE,
           val |-> IF neg THEN 0 - DigitPrefixVal(rest, 0)
                   ELSE DigitPrefixVal(rest, 0)]

\* PostgreSQL's input of an integer parameter: the whole text must be an
\* integer, otherwise the statement fails (invalid input syntax, 22P02)
Int4In(s) ==
  LET neg  == s # <<>> /\ Head(s) = "-"
      rest == IF s # <<>> /\ Head(s) \in {"-", "+"} THEN Tail(s) ELSE s
  IN IF rest = <<>> \/ \E i \in 1..Len(rest) : ~IsDigit(rest[i])
     THEN [ok |-> FALSE, val |-> 0]
     ELSE [ok |-> TRUE,
           val |-> IF neg THEN 0 - DigitPrefixVal(rest, 0)
                   ELSE DigitPrefixVal(rest, 0)]

\* Math.ceil(n / d) for n >= 0, d > 0
Ceil(n, d) == (n + d - 1) \div d

Min(a, b) == IF a < b THEN a ELSE b

\* ------------------------------------------------------------ the requests
\* req.query.page, or the text of undefined when the parameter is absent
PageArg(query) ==
  IF "page" \in DOMAIN query THEN query.page
  ELSE <<"u", "n", "d", "e", "f", "i", "n", "e", "d">>

\* a $n parameter of pool.query: a key missing from the body is undefined,
\* which node-postgres sends as NULL
Param(body, k) == IF k \in DOMAIN body THEN body[k] ELSE NULL

Origins == {NoOrigin, "http://localhost:5173", EvilOrigin}

BodyFull ==
  [full_name |-> "Carol", email |-> "c@x.com", phone |-> "555",
   location |-> "Kigali", service_type |-> "fiber", serial_number |-> "SN1",
   price |-> "10", supporter |-> "Dan", has_bonus |-> "true"]

BodyAlice == [full_name |-> "Alice", email |-> "a@x.com"]

BodyNoName == [email |-> "b@x.com", has_bonus |-> "false"]

\* a body that also names a column the storage is meant to assign, with a
\* time the database clock does not reach
BodyStamped == [full_name |-> "Bob", updated_at |-> MaxTime + 6]

Bodies == {BodyFull, BodyAlice, BodyNoName, BodyStamped}

Queries ==
  {<<>>, [page |-> <<"1">>], [page |-> <<"2">>], [page |-> <<"0">>],
   [page |-> <<"-", "1">>], [page |-> <<"x">>]}

\* the :id path parameters: every id the sequence can hand out, one beyond
\* them, and a text that is no integer
IdParams == {IntText(i) : i \in 1..(MaxId + 1)} \cup {<<"a", "b", "c">>}

Request(route, origin, id, query, body) ==
  [route |-> route, origin |-> origin, id |-> id, query |-> query,
   body |-> body]

\* the requests of each route
Requests ==
  {Request("health", o, <<>>, <<>>, <<>>) : o \in Origins}
  \cup {Request("list", x[1], <<>>, x[2], <<>>) : x \in Origins \X Queries}
  \cup {Request(x[1], x[2], x[3], <<>>, <<>>) :
          x \in {"get", "delete"} \X Origins \X IdParams}
  \cup {Request("create", x[1], <<>>, <<>>, x[2]) : x \in Origins \X Bodies}
  \cup {Request("update", x[1], x[2], <<>>, x[3]) :
          x \in Origins \X IdParams \X Bodies}

\* ------------------------------------------------------- the clients table
\* the text PostgreSQL gives back for a DECIMAL(10,2) value
NumericOut(v) ==
  CASE v = "10"  -> "10.00"
    [] v = "9.5" -> "9.50"
    [] OTHER     -> v

Coerce(k, v) == IF k = "price" THEN NumericOut(v) ELSE v

\* defaults that read the clock once per column
DefaultTwoClocks(k, id, t) ==
  CASE k = "id"         -> id
    [] k = "has_bonus"  -> "false"
    [] k = "created_at" -> t
    [] k = "updated_at" -> t + 1
    [] OTHER            -> NULL

\* the column defaults of CREATE TABLE clients
Default(k, id, t) ==
  CASE k = "id"         -> id
    [] k = "has_bonus"  -> "false"
    [] k = "created_at" -> t
    [] k = "updated_at" -> t
    [] OTHER            -> NULL

\* INSERT INTO clients (DOMAIN cols) VALUES (cols): the columns the statement
\* does not name take their defaults
InsertRow(cols, id, t) ==
  [k \in Columns |->
     IF k \in DOMAIN cols THEN Coerce(k, cols[k]) ELSE Default(k, id, t)]

\* UPDATE clients SET (DOMAIN set) = (set) on one row
UpdateRow(row, set) ==
  [k \in Columns |-> IF k \in DOMAIN set THEN Coerce(k, set[k]) ELSE row[k]]

\* full_name VARCHAR(255) NOT NULL
NotNullViolated(row) == row["full_name"] = NULL

\* the column list and parameters of the INSERT of src/server.js
PgInsertCols(body) == [k \in MutableFields |-> Param(body, k)]

\* the SET list of the UPDATE of src/server.js, with updated_at = NOW()
PgUpdateSet(body, t) ==
  [k \in MutableFields \cup {"updated_at"} |->
     IF k = "updated_at" THEN t ELSE Param(body, k)]

\* .update(clientData) of the supabase variant sets the body's own keys
SbUpdateSet(body, t) == body

\* the orders ORDER BY created_at DESC may give a set of rows
OrderedByCreatedAtDesc(tbl) ==
  {s \in [1..Cardinality(DOMAIN tbl) -> DOMAIN tbl] :
     /\ \A i, j \in DOMAIN s : i # j => s[i] # s[j]
     /\ \A i, j \in DOMAIN s :
          i < j => tbl[s[i]]["created_at"] >= tbl[s[j]]["created_at"]}

Rows(tbl, s) == [i \in DOMAIN s |-> tbl[s[i]]]

\* LIMIT lim OFFSET off of a row sequence
LimitOffset(rows, lim, off) ==
  IF off >= Len(rows) THEN <<>>
  ELSE SubSeq(rows, off + 1, Min(off + lim, Len(rows)))

Without(tbl, id) == [i \in DOMAIN tbl \ {id} |-> tbl[i]]

\* ---------------------------------------------------------------- the state
VARIABLES
  variant,        \* "pg": src/server.js; "supabase": src/unnamed/part_000
  returnsRows,    \* supabase-js gives the written rows back (its 1.x default)
                  \* or null (its 2.x default, no .select() being chained)
  clients,        \* the clients table: id -> row
  nextId,         \* the next value of the serial sequence of clients.id
  now,            \* the database clock
  listInFlight,   \* list handlers of src/server.js between their two queries
  req,            \* the request answered last
  ran,            \* the handler that ran for it, "none" when none did
  calls,          \* the storage calls that handler made
  resp,           \* the response to it
  matched,        \* its :id named a row of the table when it was served
  createdAs,      \* id -> the client of its create response and the body
                  \* of its create request, while the row is not written
  deleted         \* the ids whose delete was answered 200

vars ==
  <<variant, returnsRows, clients, nextId, now, listInFlight, req, ran, calls,
    resp, matched, createdAs, deleted>>

db == <<clients, nextId, now>>

Ok(body) == [status |-> 200, body |-> body]

NotFound == [status |-> 404, body |-> [error |-> "Client not found"]]

Failed(msg) == [status |-> 500, body |-> [error |-> msg]]

\* an answer to one request: the request, the handler, its calls, the response
Answer(r, handler, n, response) ==
  /\ req' = r
  /\ ran' = handler
  /\ calls' = n
  /\ resp' = response
  /\ matched' = /\ r.route \in {"get", "update", "delete"}
                /\ Int4In(r.id).ok
                /\ Int4In(r.id).val \in DOMAIN clients

Init ==
  /\ variant \in {"pg", "supabase"}
  /\ returnsRows \in IF variant = "pg" THEN {TRUE} ELSE BOOLEAN
  /\ clients = <<>>
  /\ nextId = 1
  /\ now = 1
  /\ listInFlight = <<>>
  /\ req = Request("none", NoOrigin, <<>>, <<>>, <<>>)
  /\ ran = "none"
  /\ calls = 0
  /\ resp = [status |-> 0, body |-> <<>>]
  /\ matched = FALSE
  /\ createdAs = <<>>
  /\ deleted = {}

\* ------------------------------------------------------------ the CORS gate
\* cors() hands the callback's error to next(err): no handler runs and
\* Express answers 500
CorsReject(route, o, id, q, body) ==
  /\ ~CorsAllows(variant, o)
  /\ Answer(Request(route, o, id, q, body), "none", 0,
            Failed("Not allowed by CORS"))
  /\ UNCHANGED <<variant, returnsRows, db, listInFlight, createdAs, deleted>>

\* ------------------------------------------------------------- health check
Health(o) ==
  /\ CorsAllows(variant, o)
  /\ Answer(Request("health", o, <<>>, <<>>, <<>>), "health", 0,
            Ok([message |-> "Smart Broadband Server is running!",
                timestamp |-> now]))
  /\ UNCHANGED <<variant, returnsRows, db, listInFlight, createdAs, deleted>>

\* ------------------------------------------- the handlers of src/server.js
\* const page = parseInt(req.query.page) || 1
PageOf(query) ==
  LET p == parseInt(PageArg(query))
  IN IF p.isNaN \/ p.val = 0 THEN 1 ELSE p.val

\* the first query of the list handler: SELECT ... LIMIT $1 OFFSET $2, which
\* fails on a negative OFFSET
PgListRows(o, q) ==
  LET page   == PageOf(q)
      offset == (page - 1) * limit
      r      == Request("list", o, <<>>, q, <<>>)
  IN /\ variant = "pg"
     /\ CorsAllows(variant, o)
     /\ listInFlight = <<>>
     /\ IF offset < 0
        THEN /\ Answer(r, "list", 1, Failed("Failed to fetch clients"))
             /\ UNCHANGED listInFlight
        ELSE /\ \E s \in OrderedByCreatedAtDesc(clients) :
                  listInFlight' =
                    <<[req |-> r, page |-> page, calls |-> 1,
                       rows |-> LimitOffset(Rows(clients, s), limit, offset)]>>
             /\ UNCHANGED <<req, ran, calls, resp, matched>>
     /\ UNCHANGED <<variant, returnsRows, db, createdAs, deleted>>

\* a list handler that takes the total from the rows it already holds and
\* makes no second query
PgListCountFromRows ==
  /\ variant = "pg"
  /\ listInFlight # <<>>
  /\ LET f            == listInFlight[1]
         totalClients == Len(f.rows)
         totalPages   == Ceil(totalClients, limit)
     IN Answer(f.req, "list", f.calls,
               Ok([data |-> f.rows, currentPage |-> f.page,
                   totalPages |-> totalPages, totalClients |-> totalClients]))
  /\ listInFlight' = <<>>
  /\ UNCHANGED <<variant, returnsRows, db, createdAs, deleted>>

\* the second query of the list handler, SELECT COUNT(*), and the response
PgListCount ==
  /\ variant = "pg"
  /\ listInFlight # <<>>
  /\ LET f            == listInFlight[1]
         count        == IntText(Cardinality(DOMAIN clients))
         totalClients == parseInt(count).val
         totalPages   == Ceil(totalClients, limit)
     IN Answer(f.req, "list", f.calls + 1,
               Ok([data |-> f.rows, currentPage |-> f.page,
                   totalPages |-> totalPages, totalClients |-> totalClients]))
  /\ listInFlight' = <<>>
  /\ UNCHANGED <<variant, returnsRows, db, createdAs, deleted>>

PgGet(o, id) ==
  LET k == Int4In(id)
      r == Request("get", o, id, <<>>, <<>>)
  IN /\ variant = "pg"
     /\ CorsAllows(variant, o)
     /\ Answer(r, "get", 1,
               IF ~k.ok THEN Failed("Failed to fetch client")
               ELSE IF k.val \notin DOMAIN clients THEN NotFound
               ELSE Ok(clients[k.val]))
     /\ UNCHANGED <<variant, returnsRows, db, listInFlight, createdAs, deleted>>

\* INSERT ... RETURNING *: the sequence and the clock move also when the
\* NOT NULL constraint rejects the row
PgCreate(o, body) ==
  LET t   == now + 1
      row == InsertRow(PgInsertCols(body), nextId, t)
      r   == Request("create", o, <<>>, <<>>, body)
  IN /\ variant = "pg"
     /\ CorsAllows(variant, o)
     /\ nextId <= MaxId
     /\ now < MaxTime
     /\ nextId' = nextId + 1
     /\ now' = t
     /\ IF NotNullViolated(row)
        THEN /\ Answer(r, "create", 1, Failed("Failed to add client"))
             /\ UNCHANGED <<clients, createdAs>>
        ELSE /\ clients' = (nextId :> row) @@ clients
             /\ createdAs' =
                  (nextId :> [client |-> row, body |-> body]) @@ createdAs
             /\ Answer(r, "create", 1,
                       Ok([message |-> "Client added successfully",
                           client |-> row]))
     /\ UNCHANGED <<variant, returnsRows, listInFlight, deleted>>

\* UPDATE ... WHERE id=$10 RETURNING *
PgUpdate(o, id, body) ==
  LET k == Int4In(id)
      t == now + 1
      r == Request("update", o, id, <<>>, body)
  IN /\ variant = "pg"
     /\ CorsAllows(variant, o)
     /\ now < MaxTime
     /\ now' = t
     /\ IF ~k.ok
        THEN /\ Answer(r, "update", 1, Failed("Failed to update client"))
             /\ UNCHANGED <<clients, createdAs>>
        ELSE IF k.val \notin DOMAIN clients
        THEN /\ Answer(r, "update", 1, NotFound)
             /\ UNCHANGED <<clients, createdAs>>
        ELSE LET row == UpdateRow(clients[k.val], PgUpdateSet(body, t))
             IN IF NotNullViolated(row)
                THEN /\ Answer(r, "update", 1,
                               Failed("Failed to update client"))
                     /\ UNCHANGED <<clients, createdAs>>
                ELSE /\ clients' = [clients EXCEPT ![k.val] = row]
                     /\ createdAs' = Without(createdAs, k.val)
                     /\ Answer(r, "update", 1,
                               Ok([message |-> "Client updated successfully",
                                   client |-> row]))
     /\ UNCHANGED <<variant, returnsRows, nextId, listInFlight, deleted>>

\* DELETE ... WHERE id=$1 RETURNING *
PgDelete(o, id) ==
  LET k == Int4In(id)
      r == Request("delete", o, id, <<>>, <<>>)
  IN /\ variant = "pg"
     /\ CorsAllows(variant, o)
     /\ now < MaxTime
     /\ now' = now + 1
     /\ IF ~k.ok
        THEN /\ Answer(r, "delete", 1, Failed("Failed to delete client"))
             /\ UNCHANGED <<clients, createdAs, deleted>>
        ELSE IF k.val \notin DOMAIN clients
        THEN /\ Answer(r, "delete", 1, NotFound)
             /\ UNCHANGED <<clients, createdAs, deleted>>
        ELSE /\ clients' = Without(clients, k.val)
             /\ createdAs' = Without(createdAs, k.val)
             /\ deleted' = deleted \cup {k.val}
             /\ Answer(r, "delete", 1,
                       Ok([message |-> "Client deleted successfully",
                           client |-> clients[k.val]]))
     /\ UNCHANGED <<variant, returnsRows, nextId, listInFlight>>

\* ------------------------------------ the handlers of src/unnamed/part_000
\* data[0] of a write's result: the row when the rows come back, undefined
\* (dropped by res.json) when none was written, a TypeError when data is null
SbWritten(msg, failure, rows) ==
  IF ~returnsRows THEN Failed(failure)
  ELSE IF rows = <<>> THEN Ok([message |-> msg])
  ELSE Ok([message |-> msg, client |-> rows[1]])

\* .select('*').order('created_at', { ascending: false })
SbList(o, q) ==
  /\ variant = "supabase"
  /\ CorsAllows(variant, o)
  /\ \E s \in OrderedByCreatedAtDesc(clients) :
       Answer(Request("list", o, <<>>, q, <<>>), "list", 1,
              Ok([data |-> Rows(clients, s)]))
  /\ UNCHANGED <<variant, returnsRows, db, listInFlight, createdAs, deleted>>

\* .select('*').eq('id', id).single(): an error unless exactly one row
SbGet(o, id) ==
  LET k == Int4In(id)
      r == Request("get", o, id, <<>>, <<>>)
  IN /\ variant = "supabase"
     /\ CorsAllows(variant, o)
     /\ Answer(r, "get", 1,
               IF k.ok /\ k.val \in DOMAIN clients THEN Ok(clients[k.val])
               ELSE Failed("Failed to fetch client"))
     /\ UNCHANGED <<variant, returnsRows, db, listInFlight, createdAs, deleted>>

\* .insert([clientData]): the body's own keys are the columns written
SbCreate(o, body) ==
  LET t     == now + 1
      row   == InsertRow(body, nextId, t)
      r     == Request("create", o, <<>>, <<>>, body)
      reply == SbWritten("Client added successfully",
                         "Failed to add client", <<row>>)
  IN /\ variant = "supabase"
     /\ CorsAllows(variant, o)
     /\ nextId <= MaxId
     /\ now < MaxTime
     /\ nextId' = nextId + 1
     /\ now' = t
     /\ IF NotNullViolated(row)
        THEN /\ Answer(r, "create", 1, Failed("Failed to add client"))
             /\ UNCHANGED <<clients, createdAs>>
        ELSE /\ clients' = (nextId :> row) @@ clients
             /\ createdAs' = IF reply.status = 200
                             THEN (nextId :> [client |-> row, body |-> body])
                                  @@ createdAs
                             ELSE createdAs
             /\ Answer(r, "create", 1, reply)
     /\ UNCHANGED <<variant, returnsRows, listInFlight, deleted>>

\* .update(clientData).eq('id', id)
SbUpdate(o, id, body) ==
  LET k == Int4In(id)
      t == now + 1
      r == Request("update", o, id, <<>>, body)
  IN /\ variant = "supabase"
     /\ CorsAllows(variant, o)
     /\ now < MaxTime
     /\ now' = t
     /\ IF ~k.ok
        THEN /\ Answer(r, "update", 1, Failed("Failed to update client"))
             /\ UNCHANGED <<clients, createdAs>>
        ELSE IF k.val \notin DOMAIN clients
        THEN /\ Answer(r, "update", 1,
                       SbWritten("Client updated successfully",
                                 "Failed to update client", <<>>))
             /\ UNCHANGED <<clients, createdAs>>
        ELSE LET row == UpdateRow(clients[k.val], SbUpdateSet(body, t))
             IN IF NotNullViolated(row)
                THEN /\ Answer(r, "update", 1,
                               Failed("Failed to update client"))
                     /\ UNCHANGED <<clients, createdAs>>
                ELSE /\ clients' = [clients EXCEPT ![k.val] = row]
                     /\ createdAs' = Without(createdAs, k.val)
                     /\ Answer(r, "update", 1,
                               SbWritten("Client updated successfully",
                                         "Failed to update client", <<row>>))
     /\ UNCHANGED <<variant, returnsRows, nextId, listInFlight, deleted>>

\* .delete().eq('id', id)
SbDelete(o, id) ==
  LET k == Int4In(id)
      r == Request("delete", o, id, <<>>, <<>>)
  IN /\ variant = "supabase"
     /\ CorsAllows(variant, o)
     /\ now < MaxTime
     /\ now' = now + 1
     /\ IF ~k.ok
        THEN /\ Answer(r, "delete", 1, Failed("Failed to delete client"))
             /\ UNCHANGED <<clients, createdAs, deleted>>
        ELSE IF k.val \notin DOMAIN clients
        THEN /\ Answer(r, "delete", 1,
                       SbWritten("Client deleted successfully",
                                 "Failed to delete client", <<>>))
             /\ UNCHANGED <<clients, createdAs, deleted>>
        ELSE /\ clients' = Without(clients, k.val)
             /\ createdAs' = Without(createdAs, k.val)
             /\ deleted' = IF returnsRows THEN deleted \cup {k.val}
                           ELSE deleted
             /\ Answer(r, "delete", 1,
                       SbWritten("Client deleted successfully",
                                 "Failed to delete client",
                                 <<clients[k.val]>>))
     /\ UNCHANGED <<variant, returnsRows, nextId, listInFlight>>

\* ---------------------------------------------------------- specification
\* the CORS gate first, then the route's handler
Serve(r) ==
  \/ CorsReject(r.route, r.origin, r.id, r.query, r.body)
  \/ r.route = "health" /\ Health(r.origin)
  \/ r.route = "list" /\ PgListRows(r.origin, r.query)
  \/ r.route = "get" /\ PgGet(r.origin, r.id)
  \/ r.route = "create" /\ PgCreate(r.origin, r.body)
  \/ r.route = "update" /\ PgUpdate(r.origin, r.id, r.body)
  \/ r.route = "delete" /\ PgDelete(r.origin, r.id)
  \/ r.route = "list" /\ SbList(r.origin, r.query)
  \/ r.route = "get" /\ SbGet(r.origin, r.id)
  \/ r.route = "create" /\ SbCreate(r.origin, r.body)
  \/ r.route = "update" /\ SbUpdate(r.origin, r.id, r.body)
  \/ r.route = "delete" /\ SbDelete(r.origin, r.id)

Next ==
  \/ \E r \in Requests : Serve(r)
  \/ PgListCount

Spec == Init /\ [][Next]_vars

\* the same server under fewer request shapes: every route and every origin,
\* three bodies, two page parameters, three :id parameters
FewRequests ==
  {r \in Requests :
     /\ r.body \in {<<>>, BodyAlice, BodyNoName, BodyStamped}
     /\ r.query \in {<<>>, [page |-> <<"-", "1">>]}
     /\ r.id \in {<<>>, <<"1">>, <<"2">>, <<"a", "b", "c">>}}

NextFew ==
  \/ \E r \in FewRequests : Serve(r)
  \/ PgListCount

SpecFew == Init /\ [][NextFew]_vars

\* ------------------------------------------------------------------ claims
IdOf(r) == Int4In(r.id).val

Answered200 == resp.status = 200

\* C1: a get, update or delete whose id matches no row of the table (an id
\* that is no integer included) is answered 404, never 500 (nor 200).
C1_MissingIdIs404 ==
  (ran \in {"get", "update", "delete"} /\ ~matched) => resp.status = 404

\* the text of a page parameter that is a whole integer
IsNumeric(s) == Int4In(s).ok

ZeroNegativeOrNonNumeric(s) == ~IsNumeric(s) \/ Int4In(s).val <= 0

\* C2: for a page parameter that is zero, negative or non-numeric the list
\* handler of src/server.js (the one that reads page) answers as for
\* page = 1: no error, currentPage = 1 and no more rows than the first page.
C2_BadPageIsPageOne ==
  ( /\ variant = "pg"
    /\ ran = "list"
    /\ "page" \in DOMAIN req.query
    /\ ZeroNegativeOrNonNumeric(req.query.page) )
  => /\ Answered200
     /\ resp.body.currentPage = 1
     /\ Len(resp.body.data) <= limit

\* C3: every successful list response has totalPages = ceil(totalClients / 10)
\* and at most 10 records in data; over a table that never held a row, data
\* is empty and totalPages is 0.
C3_ListShape ==
  (ran = "list" /\ Answered200)
  => /\ {"totalPages", "totalClients"} \subseteq DOMAIN resp.body
     /\ resp.body.totalPages = Ceil(resp.body.totalClients, 10)
     /\ Len(resp.body.data) <= 10
     /\ (clients = <<>> /\ listInFlight = <<>> /\ now = 1)
          => (resp.body.data = <<>> /\ resp.body.totalPages = 0)

\* a get answered 200 of an id whose create was answered 200, the row not
\* written since
GotCreated == ran = "get" /\ Answered200 /\ IdOf(req) \in DOMAIN createdAs

SameAsCreated ==
  /\ resp.body = createdAs[IdOf(req)].client
  /\ resp.body["created_at"] = resp.body["updated_at"]

UpdatedRow(id) ==
  /\ now' # now
  /\ ran' = "update"
  /\ resp'.status = 200
  /\ Int4In(req'.id).ok
  /\ id = IdOf(req')
  /\ id \in DOMAIN clients

StampsOrdered(tbl) ==
  \A id \in DOMAIN tbl : tbl[id]["updated_at"] >= tbl[id]["created_at"]

\* C5: a successful update of an existing client keeps its id and created_at
\* and sets updated_at strictly later than it was; updated_at >= created_at
\* in every state.
C5_UpdateStamps ==
  [][ /\ \A id \in DOMAIN clients :
           UpdatedRow(id)
           => /\ id \in DOMAIN clients'
              /\ clients'[id]["id"] = clients[id]["id"]
              /\ clients'[id]["created_at"] = clients[id]["created_at"]
              /\ clients'[id]["updated_at"] > clients[id]["updated_at"]
      /\ StampsOrdered(clients') ]_vars

Blocked(r, v) == r.origin # NoOrigin /\ r.origin \notin allowedOrigins(v)

\* C6: on every route a request whose Origin is present and not in the
\* allow-list is answered without its handler running, without a storage
\* call and with the table, the sequence and the clock untouched; a request
\* with no Origin reaches the handler of its route.
C6_CorsGate ==
  [][ /\ Blocked(req', variant')
         => /\ ran' = "none"
            /\ calls' = 0
            /\ resp'.status = 500
            /\ UNCHANGED db
      /\ (req'.route # "none" /\ req'.origin = NoOrigin)
         => ran' = req'.route ]_vars

\* a blocked delete of a row that exists, the row still there
C6_Witness ==
  /\ req.route = "delete"
  /\ req.origin = EvilOrigin
  /\ matched
  /\ ran = "none"
  /\ IdOf(req) \in DOMAIN clients

\* C7: after a successful update every mutable field of the row is the value
\* the body gives it, or NULL when the body omits it.
C7_FullReplace ==
  (ran = "update" /\ Answered200 /\ "client" \in DOMAIN resp.body)
  => \A k \in MutableFields :
       resp.body.client[k] = Coerce(k, Param(req.body, k))

\* C8: a create whose body gives full_name and omits has_bonus is answered
\* 200 with a client whose id is a positive integer and whose has_bonus is
\* false.
C8_HasBonusDefault ==
  ( /\ ran = "create"
    /\ "full_name" \in DOMAIN req.body
    /\ "has_bonus" \notin DOMAIN req.body )
  => /\ Answered200
     /\ "client" \in DOMAIN resp.body
     /\ resp.body.client["id"] \in Nat \ {0}
     /\ resp.body.client["has_bonus"] = "false"

\* C9: a get of an id whose delete was answered 200 is answered 404.
C9_DeletedStays404 ==
  (ran = "get" /\ Int4In(req.id).ok /\ IdOf(req) \in deleted)
  => resp.status = 404

\* the first page of a list response holds as many rows as the total it
\* reports allows
OneSnapshot ==
  ( /\ ran = "list"
    /\ Answered200
    /\ "totalClients" \in DOMAIN resp.body
    /\ resp.body.currentPage = 1 )
  => Len(resp.body.data) = Min(limit, resp.body.totalClients)

==========================================================================
